---- MODULE Spec2Model ----
(***************************************************************************)
(* A model of the two Markov-chain chat bots of this repository:           *)
(*   markov.py   the chain lives in a module-level dict and is saved to    *)
(*               two JSON files;                                           *)
(*   new_bot.py  the chain lives in an SQLite database reached through     *)
(*               one SQLAlchemy session per operation.                     *)
(* A Python str is a sequence of one-character strings, so that str(),     *)
(* eval() and split() are computed and not assumed.                        *)
(***************************************************************************)
EXTENDS Integers, Sequences, FiniteSets, TLC

\* ------------------------------------------------------------- bounds
\* Messages dispatched in one behaviour.
MaxMessages == 2
\* Messages dispatched in one behaviour of SpecRace.
MaxRaceMessages == 4
\* The max_words argument of the generators (the handlers pass 100).
MaxWords == 2
\* Coroutines in flight at once.
MaxHandlers == 2

\* ------------------------------------------------- program constants
MARKOV_ORDER == 2

\* ------------------------------------------------------ Python values
Sentinel == <<>>

SQ == "'"
DQ == "\""
BS == "\\"
SP == " "

Range(s) == {s[i] : i \in 1..Len(s)}

Contains(s, x) == \E i \in 1..Len(s) : s[i] = x

\* The words a chat message is made of: a plain one, and one holding both
\* kinds of quote and a comma.
Words == { <<"a">>, <<SQ, ",", DQ>> }

\* sep.join(parts)
RECURSIVE Join(_, _)
Join(sep, parts) ==
    IF parts = <<>> THEN <<>>
    ELSE IF Len(parts) = 1 THEN parts[1]
    ELSE parts[1] \o sep \o Join(sep, Tail(parts))

\* str.split(): the maximal runs of non-whitespace characters, in order.
RECURSIVE SplitFrom(_, _, _)
SplitFrom(s, i, cur) ==
    IF i > Len(s) THEN (IF cur = <<>> THEN <<>> ELSE <<cur>>)
    ELSE IF s[i] = SP
         THEN (IF cur = <<>> THEN <<>> ELSE <<cur>>) \o SplitFrom(s, i + 1, <<>>)
         ELSE SplitFrom(s, i + 1, Append(cur, s[i]))

\* str.split(' '): every space ends a word, an empty one included.
RECURSIVE SplitOnSpaceFrom(_, _, _)
SplitOnSpaceFrom(s, i, cur) ==
    IF i > Len(s) THEN <<cur>>
    ELSE IF s[i] = SP THEN <<cur>> \o SplitOnSpaceFrom(s, i + 1, <<>>)
         ELSE SplitOnSpaceFrom(s, i + 1, Append(cur, s[i]))

SplitOnSpace(s) == SplitOnSpaceFrom(s, 1, <<>>)

Split(s) == SplitFrom(s, 1, <<>>)

\* repr(str): double quotes when the string holds a single quote and no
\* double quote, single quotes otherwise; the backslash and the chosen
\* quote are escaped.
ReprQuote(s) == IF Contains(s, SQ) /\ ~Contains(s, DQ) THEN DQ ELSE SQ

\* repr(str) with nothing escaped.
ReprBodyRaw(s, q) == s

RECURSIVE ReprBody(_, _)
ReprBody(s, q) ==
    IF s = <<>> THEN <<>>
    ELSE (IF Head(s) = BS \/ Head(s) = q THEN <<BS, Head(s)>> ELSE <<Head(s)>>)
         \o ReprBody(Tail(s), q)

ReprStr(s) == <<ReprQuote(s)>> \o ReprBody(s, ReprQuote(s)) \o <<ReprQuote(s)>>

ReprAll(xs) == [i \in 1..Len(xs) |-> ReprStr(xs[i])]

\* str(tuple): a one-element tuple keeps a trailing comma.
StrTuple(t) ==
    IF Len(t) = 1 THEN <<"(">> \o ReprStr(t[1]) \o <<",", ")">>
    ELSE <<"(">> \o Join(<<",", SP>>, ReprAll(t)) \o <<")">>

\* str(list)
StrList(l) == <<"[">> \o Join(<<",", SP>>, ReprAll(l)) \o <<"]">>

\* eval() of the text of a tuple or a list of string literals.  The result
\* is a record: ok is FALSE where Python raises SyntaxError.
BadParse == [ok |-> FALSE, val |-> <<>>, next |-> 0]

\* The string literal that starts at s[i]: the characters up to the closing
\* quote, a backslash taking the character after it literally.
RECURSIVE ParseChars(_, _, _, _)
ParseChars(s, j, q, acc) ==
    IF j > Len(s) THEN BadParse
    ELSE IF s[j] = q THEN [ok |-> TRUE, val |-> acc, next |-> j + 1]
    ELSE IF s[j] = BS
         THEN (IF j + 1 > Len(s) THEN BadParse
               ELSE ParseChars(s, j + 2, q, Append(acc, s[j + 1])))
         ELSE ParseChars(s, j + 1, q, Append(acc, s[j]))

ParseStrLit(s, i) ==
    IF i > Len(s) \/ ~(s[i] \in {SQ, DQ}) THEN BadParse
    ELSE ParseChars(s, i + 1, s[i], <<>>)

\* The comma-separated literals from s[i] up to the closing bracket.
RECURSIVE ParseItems(_, _, _, _)
ParseItems(s, i, close, acc) ==
    IF i > Len(s) THEN BadParse
    ELSE IF s[i] = close
         THEN (IF i = Len(s) THEN [ok |-> TRUE, val |-> acc, next |-> i + 1]
               ELSE BadParse)
    ELSE IF s[i] = SP THEN ParseItems(s, i + 1, close, acc)
    ELSE IF s[i] = "," THEN (IF acc = <<>> THEN BadParse
                             ELSE ParseItems(s, i + 1, close, acc))
    ELSE LET lit == ParseStrLit(s, i)
         IN  IF lit.ok THEN ParseItems(s, lit.next, close, Append(acc, lit.val))
             ELSE BadParse

Eval(s) ==
    IF s = <<>> THEN BadParse
    ELSE IF s[1] = "(" THEN ParseItems(s, 2, ")", <<>>)
    ELSE IF s[1] = "[" THEN ParseItems(s, 2, "]", <<>>)
    ELSE BadParse

\* ------------------------------------------------------------ inputs
Handlers == 1..MaxHandlers

RECURSIVE SeqsUpTo(_, _)
SeqsUpTo(S, n) ==
    IF n = 0 THEN {<<>>}
    ELSE LET shorter == SeqsUpTo(S, n - 1)
         IN  shorter \cup {Append(s, x) : s \in shorter, x \in S}

\* The word lists of up to MARKOV_ORDER + 1 words: no window, one window,
\* two windows.
WordLists == SeqsUpTo(Words, MARKOV_ORDER + 1)

\* message.text: the words joined by single spaces, and one text with
\* leading, doubled and trailing whitespace.
Texts ==
    {Join(<<SP>>, ws) : ws \in WordLists} \cup {<<SP, "a", SP, SP, "a", SP>>}

\* The texts of SpecRace: one context, (a, a), followed by the end of the
\* message, by "a" and by the other word.
RaceTexts ==
    {Join(<<SP>>, <<<<"a">>, <<"a">>>> \o ws) : ws \in SeqsUpTo(Words, 1)}

\* The messages of the behaviours in which a save is cut short.
CrashTexts == {Join(<<SP>>, ws) : ws \in {<<<<"a">>>>, <<<<"a">>, <<"a">>>>}}

VARIABLES
    prog,                \* which of the two programs runs
    up,                  \* the process is polling
    received,            \* number of messages dispatched so far
    learned,             \* history: the token lists learned, in order
    markov_chain,        \* markov.py: dict from token tuples to lists
    total_messages,      \* markov.py: global counter
    generated_messages,  \* markov.py: global counter
    chain_file,          \* markov.py: markov_chain.json
    stats_file,          \* markov.py: stats.json
    handler,             \* markov.py: one on_message coroutine per slot
    saved,               \* history: the globals as the last save found them
    saving,              \* markov.py: where a running save_markov_chain is
    snapshots,           \* history: the empty model, and every model a save set out to write
    db_chain,            \* new_bot.py: committed rows of table chain
    db_stats,            \* new_bot.py: committed rows of table stats
    db_lock,             \* new_bot.py: the coroutine holding SQLite's write lock
    task,                \* new_bot.py: one handle_message coroutine per slot
    handled,             \* history: handle_message runs that returned
    generations          \* history: generate_text calls that returned

shared == <<prog, up, received, learned>>
markov_vars == <<markov_chain, total_messages, generated_messages,
                 chain_file, stats_file, handler, saved, saving, snapshots>>
bot_vars == <<db_chain, db_stats, db_lock, task, handled, generations>>
vars == <<shared, markov_vars, bot_vars>>

\* A file is <<>> while it does not exist, and <<content>> once written.
\* Between open(..., 'w'), which empties it, and the end of json.dump it
\* holds no complete JSON document: Partial.
NoFile == <<>>
Partial == <<<<>>, <<>>>>
IsPartial(file) == Len(file) = Len(Partial)
\* save_markov_chain is not running; or it is at `pc`, called by the
\* handler of slot `by` (0: by on_shutdown).
NotSaving == [pc |-> "no", by |-> 0]
EmptyDict == [k \in {} |-> <<>>]
Idle == [pc |-> "idle", text |-> <<>>, err |-> "none"]
ModelOf(chain, total, generated) ==
    [markov_chain |-> chain, total_messages |-> total,
     generated_messages |-> generated]

\* The sentinel appended twice.
TokenizeTwice(txt) == Split(txt) \o <<Sentinel, Sentinel>>

\* text = message.text.split(); text.append("")
Tokenize(txt) == Append(Split(txt), Sentinel)

\* --------------------------------------------------- markov.py: learning
\* The list extended without the membership test.
ObserveAlways(chain, key, nxt) ==
    [k \in DOMAIN chain \cup {key} |->
        IF k = key
        THEN Append(IF key \in DOMAIN chain THEN chain[key] ELSE <<>>, nxt)
        ELSE chain[k]]

\* The list of a new key created and left empty.
ObserveKeyFirst(chain, key, nxt) ==
    LET old == IF key \in DOMAIN chain THEN chain[key] ELSE <<>>
        new == IF key \notin DOMAIN chain \/ Contains(old, nxt) THEN old
               ELSE Append(old, nxt)
    IN  [k \in DOMAIN chain \cup {key} |-> IF k = key THEN new ELSE chain[k]]

\* The body of on_message's loop: the successor is appended to the list of
\* the key unless it is in it, the list being created when the key is new.
Observe(chain, key, nxt) ==
    LET old == IF key \in DOMAIN chain THEN chain[key] ELSE <<>>
        new == IF Contains(old, nxt) THEN old ELSE Append(old, nxt)
    IN  [k \in DOMAIN chain \cup {key} |-> IF k = key THEN new ELSE chain[k]]

\* on_message, the loop over range(len(text) - MARKOV_ORDER).
RECURSIVE LearnFrom(_, _, _)
LearnFrom(chain, text, i) ==
    IF i >= Len(text) - MARKOV_ORDER THEN chain
    ELSE LearnFrom(Observe(chain, SubSeq(text, i + 1, i + MARKOV_ORDER),
                           text[i + MARKOV_ORDER + 1]),
                   text, i + 1)

\* The loop run over the tokens with one sentinel more.
LearnPadded(chain, txt) == LearnFrom(chain, Append(Tokenize(txt), Sentinel), 0)

Learn(chain, txt) == LearnFrom(chain, Tokenize(txt), 0)

\* ------------------------------------------------- markov.py: generation
\* The loop of generate_markov_text: the token lists it can end with, n
\* iterations being left.
RECURSIVE GenLoop(_, _, _)
GenLoop(chain, text, n) ==
    IF n = 0 THEN {text}
    ELSE LET key == SubSeq(text, Len(text) - MARKOV_ORDER + 1, Len(text))
         IN  IF key \in DOMAIN chain
             THEN UNION {GenLoop(chain, Append(text, w), n - 1) :
                             w \in Range(chain[key])}
             ELSE {text}

\* The loop run once more than max_words.
generate_one_more(chain, max_words) ==
    UNION {GenLoop(chain, k, max_words + 1) : k \in DOMAIN chain}

\* random.choice(list(chain.keys())) raises IndexError on an empty dict:
\* the result is then the empty set of texts.
generate_markov_text(chain, max_words) ==
    UNION {GenLoop(chain, k, max_words) : k \in DOMAIN chain}

\* ------------------------------------------------ markov.py: persistence
\* What json.dump writes to CHAIN_FILE: the dict {str(key): value}.
SerializableChain(chain) ==
    LET keys == {StrTuple(k) : k \in DOMAIN chain}
    IN  [s \in keys |-> chain[CHOOSE k \in DOMAIN chain : StrTuple(k) = s]]

StatsOf(total, generated) == [total_msgs |-> total, gen_msgs |-> generated]

\* load_markov_chain, the chain file: ok is FALSE where eval raises.
LoadChain(file) ==
    IF file = NoFile THEN [ok |-> TRUE, chain |-> EmptyDict]
    ELSE IF IsPartial(file) THEN [ok |-> FALSE, chain |-> EmptyDict]
    ELSE LET serialized_chain == file[1]
         IN  IF \E s \in DOMAIN serialized_chain : ~Eval(s).ok
             THEN [ok |-> FALSE, chain |-> EmptyDict]
             ELSE LET keys == {Eval(s).val : s \in DOMAIN serialized_chain}
                  IN  [ok |-> TRUE,
                       chain |-> [k \in keys |->
                           serialized_chain[CHOOSE s \in DOMAIN serialized_chain :
                                                Eval(s).val = k]]]

\* load_markov_chain, the stats file.
LoadStats(file) ==
    IF file = NoFile \/ IsPartial(file) THEN StatsOf(0, 0) ELSE file[1]

\* json.load raises JSONDecodeError on a file that holds no complete
\* document, eval raises on a key it cannot parse; load_markov_chain
\* catches FileNotFoundError only.
load_markov_chain ==
    [ok |-> LoadChain(chain_file).ok /\ ~IsPartial(stats_file),
     model |-> ModelOf(LoadChain(chain_file).chain,
                       LoadStats(stats_file).total_msgs,
                       LoadStats(stats_file).gen_msgs)]

\* The chain file rewritten, the stats file left as it was.
save_chain_only ==
    /\ chain_file' = <<SerializableChain(markov_chain)>>
    /\ saved' = ModelOf(markov_chain, total_messages, generated_messages)
    /\ snapshots' = snapshots \cup {saved'}
    /\ UNCHANGED <<stats_file, saving>>

\* save_markov_chain: both files are rewritten from the globals.  The
\* coroutine holds no await, so it runs without interleaving.
save_markov_chain ==
    /\ chain_file' = <<SerializableChain(markov_chain)>>
    /\ stats_file' = <<StatsOf(total_messages, generated_messages)>>
    /\ saved' = ModelOf(markov_chain, total_messages, generated_messages)
    /\ snapshots' = snapshots \cup {saved'}
    /\ UNCHANGED saving

\* ------------------------------------------------- markov.py: the process
\* if __name__ == '__main__': the globals are loaded, then polling starts.
\* Where eval raises, the process ends before it polls.
MStartup ==
    /\ prog = "markov"
    /\ ~up
    /\ saving = NotSaving
    /\ IF load_markov_chain.ok
       THEN /\ up' = TRUE
            /\ markov_chain' = load_markov_chain.model.markov_chain
            /\ total_messages' = load_markov_chain.model.total_messages
            /\ generated_messages' = load_markov_chain.model.generated_messages
       ELSE UNCHANGED <<up, markov_chain, total_messages, generated_messages>>
    /\ UNCHANGED <<prog, received, learned, chain_file, stats_file, handler,
                   saved, saving, snapshots, bot_vars>>

\* on_shutdown=save_markov_chain; the coroutines still waiting end with the
\* event loop.
MShutdown ==
    /\ prog = "markov"
    /\ up
    /\ saving = NotSaving
    /\ save_markov_chain
    /\ up' = FALSE
    /\ handler' = [h \in Handlers |-> Idle]
    /\ UNCHANGED <<prog, received, learned, markov_chain, total_messages,
                   generated_messages, bot_vars>>

\* on_message from logging.info('Called...') to the await of message.reply:
\* the counter is incremented, then the text is generated from `chain`, the
\* dict as it is at that moment.  on_message passes max_words = 100; the
\* model passes MaxWords.
Called(h, chain) ==
    /\ generated_messages' = generated_messages + 1
    /\ IF DOMAIN chain = {}
       THEN handler' = [handler EXCEPT ![h] = [Idle EXCEPT !.err = "IndexError"]]
       ELSE \E t \in generate_markov_text(chain, MaxWords) :
                handler' = [handler EXCEPT
                               ![h] = [pc |-> "reply", text |-> t, err |-> "none"]]

\* on_message up to its first await (or its return).  private stands for
\* the trigger condition (a private chat); skip for random.random() > 0.1.
\* The coroutine takes the first free slot: slots are only names.
OnMessage(h, txt, private, skip) ==
    /\ prog = "markov"
    /\ up
    /\ saving = NotSaving
    /\ handler[h].pc = "idle"
    /\ \A g \in Handlers : g < h => handler[g].pc # "idle"
    /\ received < MaxMessages
    /\ received' = received + 1
    /\ total_messages' = total_messages + 1
    /\ markov_chain' = Learn(markov_chain, txt)
    /\ learned' = Append(learned, Tokenize(txt))
    /\ IF private THEN Called(h, markov_chain')
       ELSE /\ handler' = [handler EXCEPT
                              ![h] = IF skip THEN Idle
                                     ELSE [Idle EXCEPT !.pc = "sleep"]]
            /\ UNCHANGED generated_messages
    /\ UNCHANGED <<prog, up, chain_file, stats_file, saved, saving, snapshots,
                   bot_vars>>

\* The handler resumes after await sleep(...).
AfterSleep(h) ==
    /\ prog = "markov"
    /\ up
    /\ saving = NotSaving
    /\ handler[h].pc = "sleep"
    /\ Called(h, markov_chain)
    /\ UNCHANGED <<shared, markov_chain, total_messages, chain_file,
                   stats_file, saved, saving, snapshots, bot_vars>>

\* The handler resumes after await message.reply(...) and saves.
AfterReply(h) ==
    /\ prog = "markov"
    /\ up
    /\ saving = NotSaving
    /\ handler[h].pc = "reply"
    /\ save_markov_chain
    /\ handler' = [handler EXCEPT ![h] = Idle]
    /\ UNCHANGED <<shared, markov_chain, total_messages, generated_messages,
                   bot_vars>>

MarkovNext ==
    \/ MStartup
    \/ MShutdown
    \/ \E h \in Handlers, txt \in Texts, private \in BOOLEAN, skip \in BOOLEAN :
           OnMessage(h, txt, private, skip)
    \/ \E h \in Handlers : AfterSleep(h)
    \/ \E h \in Handlers : AfterReply(h)

\* ------------------------------- markov.py: a save that can be cut short
\* save_markov_chain statement by statement, for a process that can be
\* killed between two of them.  No await stands between them, so no
\* handler runs while saving # NotSaving.
\* Lines 41-42: the dict is serialised and open(CHAIN_FILE, 'w') empties
\* the file.  by is the slot of the handler that awaited its reply, or 0
\* for on_shutdown.
SaveBegin(by) ==
    /\ prog = "markov"
    /\ up
    /\ saving = NotSaving
    /\ by # 0 => handler[by].pc = "reply"
    /\ chain_file' = Partial
    /\ saving' = [pc |-> "chain", by |-> by]
    /\ saved' = ModelOf(markov_chain, total_messages, generated_messages)
    /\ snapshots' = snapshots \cup {saved'}
    /\ UNCHANGED <<shared, markov_chain, total_messages, generated_messages,
                   stats_file, handler, bot_vars>>

\* Line 43: json.dump has written the chain and the file is closed.
WriteChain ==
    /\ prog = "markov"
    /\ saving.pc = "chain"
    /\ chain_file' = <<SerializableChain(markov_chain)>>
    /\ saving' = [saving EXCEPT !.pc = "chain_written"]
    /\ UNCHANGED <<shared, markov_chain, total_messages, generated_messages,
                   stats_file, handler, saved, snapshots, bot_vars>>

\* Line 44: open(STATS_FILE, 'w') empties the file.
OpenStats ==
    /\ prog = "markov"
    /\ saving.pc = "chain_written"
    /\ stats_file' = Partial
    /\ saving' = [saving EXCEPT !.pc = "stats"]
    /\ UNCHANGED <<shared, markov_chain, total_messages, generated_messages,
                   chain_file, handler, saved, snapshots, bot_vars>>

\* Lines 45-49: json.dump has written the counters and the file is closed;
\* the handler returns, or the process ends after on_shutdown.
WriteStats ==
    /\ prog = "markov"
    /\ saving.pc = "stats"
    /\ stats_file' = <<StatsOf(total_messages, generated_messages)>>
    /\ saving' = NotSaving
    /\ IF saving.by = 0
       THEN /\ up' = FALSE
            /\ handler' = [h \in Handlers |-> Idle]
       ELSE /\ handler' = [handler EXCEPT ![saving.by] = Idle]
            /\ UNCHANGED up
    /\ UNCHANGED <<prog, received, learned, markov_chain, total_messages,
                   generated_messages, chain_file, saved, snapshots, bot_vars>>

\* The process is killed: its coroutines and its globals are gone, the
\* files stay as they are.  The next process starts from the module-level
\* statements (markov_chain = {}, both counters 0).
Crash ==
    /\ prog = "markov"
    /\ up
    /\ up' = FALSE
    /\ saving' = NotSaving
    /\ handler' = [h \in Handlers |-> Idle]
    /\ markov_chain' = EmptyDict
    /\ total_messages' = 0
    /\ generated_messages' = 0
    /\ UNCHANGED <<prog, received, learned, chain_file, stats_file, saved,
                   snapshots, bot_vars>>

CrashNext ==
    \/ MStartup
    \/ \E h \in Handlers, txt \in CrashTexts, private \in BOOLEAN, skip \in BOOLEAN :
           OnMessage(h, txt, private, skip)
    \/ \E h \in Handlers : AfterSleep(h)
    \/ \E by \in Handlers \cup {0} : SaveBegin(by)
    \/ WriteChain
    \/ OpenStats
    \/ WriteStats
    \/ Crash

\* ------------------------------------------------------ new_bot.py: rows
\* A Chain object of a session: state is "none" (no object), "clean" (as
\* loaded or flushed), "dirty" (next_words was assigned) or "new" (added,
\* not yet inserted).
NoEntry == [key |-> <<>>, val |-> <<>>, state |-> "none"]

IdleTask ==
    [pc |-> "idle", words |-> <<>>, private |-> FALSE, i |-> 0,
     entry |-> NoEntry, txn |-> EmptyDict, result |-> <<>>, n |-> 0,
     stat |-> 0, err |-> "none"]

\* get_random_key's fallback, ("start", "here").
StartHere == << <<"s", "t", "a", "r", "t">>, <<"h", "e", "r", "e">> >>

\* get_stat: result.scalar() or 0
get_stat(key) == IF key \in DOMAIN db_stats THEN db_stats[key] ELSE 0

\* update_stat: UPDATE stats SET value = :value WHERE key = :key
update_stat(stats, key, value) ==
    [k \in DOMAIN stats |-> IF k = key THEN value ELSE stats[k]]

\* The row of key_str as a session sees it: its own flushed writes over the
\* committed rows.
SelectChain(txn, key_str) ==
    IF key_str \in DOMAIN txn THEN [key |-> key_str, val |-> txn[key_str], state |-> "clean"]
    ELSE IF key_str \in DOMAIN db_chain
         THEN [key |-> key_str, val |-> db_chain[key_str], state |-> "clean"]
         ELSE NoEntry

\* build_markov_chain, the body of the loop after session.get: the entry's
\* list is parsed, extended and written back as text, or a new entry is
\* added to the session.
BotObserve(chain_entry, key_str, next_word) ==
    IF chain_entry.state = "none"
    THEN [key |-> key_str, val |-> StrList(<<next_word>>), state |-> "new"]
    ELSE LET next_words == Eval(chain_entry.val).val
         IN  IF Contains(next_words, next_word) THEN chain_entry
             ELSE [key |-> key_str,
                   val |-> StrList(Append(next_words, next_word)),
                   state |-> "dirty"]

\* A flush sends the session's unwritten object: an UPDATE for a dirty one,
\* an INSERT for a new one, which fails on a key that was committed
\* meanwhile (IntegrityError: the key is the primary key).
NeedsWrite(t) == t.entry.state \in {"dirty", "new"}

FlushFails(t) == t.entry.state = "new" /\ t.entry.key \in DOMAIN db_chain

FlushTxn(t) ==
    IF NeedsWrite(t)
    THEN [k \in DOMAIN t.txn \cup {t.entry.key} |->
              IF k = t.entry.key THEN t.entry.val ELSE t.txn[k]]
    ELSE t.txn

\* get_session's except branch: the transaction is rolled back, the write
\* lock given up, and the exception ends handle_message.
Rollback(h, error) ==
    /\ task' = [task EXCEPT ![h] = [IdleTask EXCEPT !.err = error]]
    /\ db_lock' = IF db_lock = h THEN 0 ELSE db_lock

\* build_markov_chain with no other session at work: the rows after its
\* commit, the loop having reached index i with `view` as the session's rows.
RECURSIVE BuildFrom(_, _, _)
BuildFrom(view, words, i) ==
    IF i >= Len(words) - MARKOV_ORDER THEN view
    ELSE LET key_str == StrTuple(SubSeq(words, i + 1, i + MARKOV_ORDER))
             chain_entry == IF key_str \in DOMAIN view
                            THEN [key |-> key_str, val |-> view[key_str], state |-> "clean"]
                            ELSE NoEntry
             entry == BotObserve(chain_entry, key_str, words[i + MARKOV_ORDER + 1])
         IN  BuildFrom([k \in DOMAIN view \cup {key_str} |->
                            IF k = key_str THEN entry.val ELSE view[k]],
                       words, i + 1)

build_markov_chain(rows, words) == BuildFrom(rows, Append(words, Sentinel), 0)

\* ------------------------------------------- new_bot.py: handle_message
\* Each action is one database operation of the coroutine with the Python
\* that follows it up to the next one.

\* handle_message starts: get_stat("total_messages") + 1.
Receive(h, txt, private, limit) ==
    /\ prog = "new_bot"
    /\ task[h].pc = "idle"
    /\ \A g \in Handlers : g < h => task[g].pc # "idle"
    /\ received < limit
    /\ received' = received + 1
    /\ task' = [task EXCEPT ![h] =
                   [IdleTask EXCEPT !.pc = "update_total",
                                    !.words = Append(Split(txt), Sentinel),
                                    !.private = private,
                                    !.stat = get_stat("total_messages") + 1]]
    /\ UNCHANGED <<prog, up, learned, markov_vars, db_chain, db_stats, db_lock,
                   handled, generations>>

\* update_stat("total_messages", total): the UPDATE and its commit.  A
\* writer waits while another session holds the write lock.
UpdateTotal(h) ==
    /\ prog = "new_bot"
    /\ task[h].pc = "update_total"
    /\ db_lock = 0
    /\ db_stats' = update_stat(db_stats, "total_messages", task[h].stat)
    /\ task' = [task EXCEPT ![h].pc = "build"]
    /\ UNCHANGED <<shared, markov_vars, db_chain, db_lock, handled, generations>>

\* One iteration of build_markov_chain's loop.  session.get returns the
\* object the coroutine still refers to when the key is the one of the
\* iteration before; otherwise it flushes (autoflush) and selects.
BuildStep(h) ==
    LET t == task[h]
        key_str == StrTuple(SubSeq(t.words, t.i + 1, t.i + MARKOV_ORDER))
        next_word == t.words[t.i + MARKOV_ORDER + 1]
        hit == t.entry.state \in {"clean", "dirty"} /\ t.entry.key = key_str
    IN  /\ prog = "new_bot"
        /\ t.pc = "build"
        /\ t.i < Len(t.words) - MARKOV_ORDER
        /\ IF hit
           THEN /\ task' = [task EXCEPT
                               ![h].entry = BotObserve(t.entry, key_str, next_word),
                               ![h].i = t.i + 1]
                /\ UNCHANGED db_lock
           ELSE /\ NeedsWrite(t) => db_lock \in {0, h}
                /\ IF FlushFails(t) THEN Rollback(h, "IntegrityError")
                   ELSE /\ task' = [task EXCEPT
                                       ![h].entry =
                                           BotObserve(SelectChain(FlushTxn(t), key_str),
                                                      key_str, next_word),
                                       ![h].txn = FlushTxn(t),
                                       ![h].i = t.i + 1]
                        /\ db_lock' = IF NeedsWrite(t) THEN h ELSE db_lock
        /\ UNCHANGED <<shared, markov_vars, db_chain, db_stats, handled,
                       generations>>

\* build_markov_chain's loop is over: get_session commits (flush, COMMIT),
\* then handle_message checks its triggers.  REPLY_CHANCE is the str that
\* os.getenv returned, so outside a private chat random.random() >
\* REPLY_CHANCE raises TypeError.  asyncio.sleep follows in a private chat.
Commit(h) ==
    LET t == task[h]
    IN  /\ prog = "new_bot"
        /\ t.pc = "build"
        /\ t.i >= Len(t.words) - MARKOV_ORDER
        /\ NeedsWrite(t) => db_lock \in {0, h}
        /\ IF FlushFails(t)
           THEN /\ Rollback(h, "IntegrityError")
                /\ UNCHANGED <<db_chain, learned>>
           ELSE /\ db_chain' = [k \in DOMAIN db_chain \cup DOMAIN FlushTxn(t) |->
                                   IF k \in DOMAIN FlushTxn(t) THEN FlushTxn(t)[k]
                                   ELSE db_chain[k]]
                /\ db_lock' = IF db_lock = h THEN 0 ELSE db_lock
                /\ learned' = Append(learned, t.words)
                /\ task' = [task EXCEPT ![h] =
                               IF t.private THEN [IdleTask EXCEPT !.pc = "seed"]
                               ELSE [IdleTask EXCEPT !.err = "TypeError"]]
        /\ UNCHANGED <<prog, up, received, markov_vars, db_stats, handled,
                       generations>>

\* generate_text: get_random_key, SELECT key ... ORDER BY random() LIMIT 1.
\* handle_message passes no max_words, so MAX_WORDS = 100 applies; the
\* model passes MaxWords.
GenSeed(h) ==
    /\ prog = "new_bot"
    /\ task[h].pc = "seed"
    /\ IF DOMAIN db_chain = {}
       THEN task' = [task EXCEPT ![h].pc = "gen", ![h].n = MaxWords,
                                 ![h].result = StartHere]
       ELSE \E key \in DOMAIN db_chain :
                task' = [task EXCEPT ![h].pc = "gen", ![h].n = MaxWords,
                                     ![h].result = Eval(key).val]
    /\ UNCHANGED <<shared, markov_vars, db_chain, db_stats, db_lock, handled,
                   generations>>

\* One iteration of generate_text's loop, n iterations being left.  When
\* the loop ends, generate_text returns.
GenStep(h) ==
    LET t == task[h]
        key_str == StrTuple(SubSeq(t.result, Len(t.result) - MARKOV_ORDER + 1,
                                   Len(t.result)))
        chain_entry == IF t.entry.state = "clean" /\ t.entry.key = key_str
                       THEN t.entry
                       ELSE SelectChain(EmptyDict, key_str)
    IN  /\ prog = "new_bot"
        /\ t.pc = "gen"
        /\ IF chain_entry.state = "none" \/ chain_entry.val = <<>>
           THEN /\ task' = [task EXCEPT ![h].pc = "read_generated",
                                        ![h].entry = NoEntry]
                /\ generations' = generations + 1
           ELSE IF Eval(chain_entry.val).val = <<>>
           THEN /\ task' = [task EXCEPT ![h] = [IdleTask EXCEPT !.err = "IndexError"]]
                /\ UNCHANGED generations
           ELSE \E next_word \in Range(Eval(chain_entry.val).val) :
                    LET over == next_word = Sentinel \/ t.n = 1
                    IN  /\ task' = [task EXCEPT
                                       ![h].result = Append(t.result, next_word),
                                       ![h].entry = IF over THEN NoEntry ELSE chain_entry,
                                       ![h].n = t.n - 1,
                                       ![h].pc = IF over THEN "read_generated" ELSE "gen"]
                        /\ generations' = IF over THEN generations + 1 ELSE generations
        /\ UNCHANGED <<shared, markov_vars, db_chain, db_stats, db_lock, handled>>

\* get_stat("generated_messages") + 1
ReadGenerated(h) ==
    /\ prog = "new_bot"
    /\ task[h].pc = "read_generated"
    /\ task' = [task EXCEPT ![h].pc = "update_generated",
                            ![h].stat = get_stat("generated_messages") + 1]
    /\ UNCHANGED <<shared, markov_vars, db_chain, db_stats, db_lock, handled,
                   generations>>

\* update_stat("generated_messages", generated), then message.reply: the
\* handler returns.
UpdateGenerated(h) ==
    /\ prog = "new_bot"
    /\ task[h].pc = "update_generated"
    /\ db_lock = 0
    /\ db_stats' = update_stat(db_stats, "generated_messages", task[h].stat)
    /\ task' = [task EXCEPT ![h] = IdleTask]
    /\ handled' = handled + 1
    /\ UNCHANGED <<shared, markov_vars, db_chain, db_lock, generations>>

BotNext ==
    \/ \E h \in Handlers, txt \in Texts, private \in BOOLEAN :
           Receive(h, txt, private, MaxMessages)
    \/ \E h \in Handlers : UpdateTotal(h)
    \/ \E h \in Handlers : BuildStep(h)
    \/ \E h \in Handlers : Commit(h)
    \/ \E h \in Handlers : GenSeed(h)
    \/ \E h \in Handlers : GenStep(h)
    \/ \E h \in Handlers : ReadGenerated(h)
    \/ \E h \in Handlers : UpdateGenerated(h)

\* new_bot.py in group chats, with the texts of RaceTexts.
RaceNext ==
    \/ \E h \in Handlers, txt \in RaceTexts :
           Receive(h, txt, FALSE, MaxRaceMessages)
    \/ \E h \in Handlers : UpdateTotal(h)
    \/ \E h \in Handlers : BuildStep(h)
    \/ \E h \in Handlers : Commit(h)

\* ------------------------------------------------ the statistics queries
\* sum(f(x) for x in xs), as Python's sum and SQL's SUM add up.
RECURSIVE Sum(_, _)
Sum(f, xs) ==
    IF xs = {} THEN 0
    ELSE LET x == CHOOSE y \in xs : TRUE IN f[x] + Sum(f, xs \ {x})

\* A quotient that is reported with two decimals: kept as the pair.
Quotient(num, den) == <<num, den>>
Zero == 0

\* markov.py wisdom, up to its reply: the division raises on an empty dict
\* and nothing is replied.
wisdom ==
    LET total_words == Cardinality(DOMAIN markov_chain)
        chain_size == Sum([k \in DOMAIN markov_chain |-> Len(markov_chain[k])],
                          DOMAIN markov_chain)
    IN  IF total_words = 0
        THEN [err |-> "ZeroDivisionError", total_words |-> total_words,
              chain_size |-> chain_size, variability |-> Zero]
        ELSE [err |-> "none", total_words |-> total_words,
              chain_size |-> chain_size,
              variability |-> Quotient(chain_size, total_words)]

\* length(next_words) - length(replace(next_words, ',', '')) + 1
CommasPlusOne(next_words) ==
    Cardinality({i \in 1..Len(next_words) : next_words[i] = ","}) + 1

\* new_bot.py wisdom_command, the two queries of its session and the
\* message built from them, on the committed rows.  SUM over no row is
\* NULL and is reported as 0.
wisdom_command ==
    LET chain_count == Cardinality(DOMAIN db_chain)
        chain_size == Sum([k \in DOMAIN db_chain |-> CommasPlusOne(db_chain[k])],
                          DOMAIN db_chain)
    IN  [err |-> "none", chain_count |-> chain_count, chain_size |-> chain_size,
         variability |-> IF chain_count > 0 THEN Quotient(chain_size, chain_count)
                         ELSE Zero]

\* ------------------------------------------------------ specifications
\* markov.py after its module-level statements, before __main__ loads; or
\* new_bot.py after on_startup (init_db on a database that does not exist
\* yet creates two empty tables).
InitOf(programs) ==
    /\ prog \in programs
    /\ up = (prog = "new_bot")
    /\ received = 0
    /\ learned = <<>>
    /\ markov_chain = EmptyDict
    /\ total_messages = 0
    /\ generated_messages = 0
    /\ chain_file = NoFile
    /\ stats_file = NoFile
    /\ handler = [h \in Handlers |-> Idle]
    /\ saved = ModelOf(EmptyDict, 0, 0)
    /\ saving = NotSaving
    /\ snapshots = {saved}
    /\ db_chain = EmptyDict
    /\ db_stats = EmptyDict
    /\ db_lock = 0
    /\ task = [h \in Handlers |-> IdleTask]
    /\ handled = 0
    /\ generations = 0

Init == InitOf({"markov", "new_bot"})

Next == MarkovNext \/ BotNext

Spec == Init /\ [][Next]_vars

RaceInit == InitOf({"new_bot"})

SpecRace == RaceInit /\ [][RaceNext]_vars

CrashInit == InitOf({"markov"})

SpecCrash == CrashInit /\ [][CrashNext]_vars

\* =============================================================== claims
\* The chain store of the running program, decoded: contexts are token
\* tuples, successor lists are token lists.
Store ==
    IF prog = "markov" THEN markov_chain
    ELSE [k \in {Eval(s).val : s \in DOMAIN db_chain} |->
             Eval(db_chain[CHOOSE s \in DOMAIN db_chain : Eval(s).val = k]).val]

StorePairs == UNION {{<<k, Store[k][i]>> : i \in 1..Len(Store[k])} : k \in DOMAIN Store}

\* The (N+1)-token windows of a token list, as (context, successor) pairs
\* in the order of their start index.
WindowSeq(tokens) ==
    [i \in 1..(IF Len(tokens) > MARKOV_ORDER THEN Len(tokens) - MARKOV_ORDER ELSE 0) |->
        <<SubSeq(tokens, i, i + MARKOV_ORDER - 1), tokens[i + MARKOV_ORDER]>>]

RECURSIVE Flatten(_)
Flatten(ss) == IF ss = <<>> THEN <<>> ELSE Head(ss) \o Flatten(Tail(ss))

\* Every observation of the learned messages, in the order it was made.
Observed == Flatten([j \in 1..Len(learned) |-> WindowSeq(learned[j])])

FirstIndex(seq, x) == CHOOSE i \in 1..Len(seq) : seq[i] = x /\ \A j \in 1..(i - 1) : seq[j] # x

\* C1: the (context, successor) pairs of the chain store are exactly the
\* (N+1)-token windows of the learned messages, and the contexts of the
\* store are exactly the first N tokens of those windows.
C1_StoreIsWindows ==
    /\ StorePairs = Range(Observed)
    /\ DOMAIN Store = {p[1] : p \in Range(Observed)}

\* C2: no successor list holds a token twice, and the tokens of a list are
\* in the order in which they were first observed after its context.
C2_FirstObservedOrder ==
    \A k \in DOMAIN Store :
        \A i, j \in 1..Len(Store[k]) :
            i < j =>
                /\ Store[k][i] # Store[k][j]
                /\ (<<k, Store[k][i]>> \in Range(Observed)
                        /\ <<k, Store[k][j]>> \in Range(Observed))
                   => FirstIndex(Observed, <<k, Store[k][i]>>)
                          < FirstIndex(Observed, <<k, Store[k][j]>>)

Tokens == Words \cup {Sentinel}
Contexts == {<<x, y>> : x \in Words, y \in Words}
RowOf(key_str) == SelectChain(EmptyDict, key_str)

\* C3: an observation whose successor is already in the list of its context
\* leaves the store as it is; an observation made twice gives what it gives
\* made once; a message learned twice gives what it gives learned once.
C3_ObservationIdempotent ==
    IF prog = "markov"
    THEN /\ \A k \in DOMAIN markov_chain :
                \A i \in 1..Len(markov_chain[k]) :
                    Observe(markov_chain, k, markov_chain[k][i]) = markov_chain
         /\ \A k \in Contexts, w \in Tokens :
                Observe(Observe(markov_chain, k, w), k, w) = Observe(markov_chain, k, w)
         /\ \A txt \in Texts :
                LET once == Learn(markov_chain, txt)
                IN  Learn(once, txt) = once
    ELSE /\ \A s \in DOMAIN db_chain :
                \A w \in Range(Eval(db_chain[s]).val) :
                    BotObserve(RowOf(s), s, w) = RowOf(s)
         /\ \A k \in Contexts, w \in Tokens :
                LET once == BotObserve(RowOf(StrTuple(k)), StrTuple(k), w)
                IN  /\ BotObserve(once, StrTuple(k), w) = once
                    /\ Contains(Eval(once.val).val, w)
         /\ \A words \in WordLists :
                LET once == build_markov_chain(db_chain, words)
                IN  build_markov_chain(once, words) = once

\* A message of two windows was learned twice, and a list holds two tokens.
C3_Witness ==
    /\ \E i, j \in 1..Len(learned) :
           i < j /\ learned[i] = learned[j] /\ Len(learned[i]) > MARKOV_ORDER + 1
    /\ \E k \in DOMAIN Store : Len(Store[k]) >= 2

\* C4: in markov.py, a message of fewer than N+1 tokens (the sentinel
\* included) leaves the chain store as it is and adds exactly one to
\* total_messages.
C4_ShortMessageNoOp ==
    [][(prog = "markov" /\ learned' # learned
            /\ Len(learned'[Len(learned')]) < MARKOV_ORDER + 1)
        => (markov_chain' = markov_chain /\ total_messages' = total_messages + 1)]_vars

\* A one-word message and an empty message were handled after a message
\* that filled the store.
C4_Witness ==
    /\ prog = "markov"
    /\ Len(learned) = 2
    /\ Len(learned[1]) > MARKOV_ORDER
    /\ Len(learned[2]) \in {1, 2}
    /\ total_messages = 2
    /\ DOMAIN markov_chain # {}

\* C5: in new_bot.py, once every dispatched message has been handled to
\* the end, total_messages counts the messages and generated_messages the
\* generations.
C5_CountersCountOperations ==
    (prog = "new_bot" /\ received = handled /\ \A h \in Handlers : task[h].pc = "idle")
        => /\ get_stat("total_messages") = handled
           /\ get_stat("generated_messages") = generations

\* C6: generation on an empty chain store ends in the EmptyModel failure:
\* markov.py's handler does not end with IndexError, and new_bot.py's
\* generate_text does not return a text seeded from an empty table.
C6_EmptyModelFailure ==
    /\ \A h \in Handlers : handler[h].err \in {"none", "EmptyModel"}
    /\ \A h \in Handlers :
           task[h].pc \in {"read_generated", "update_generated"}
               => SubSeq(task[h].result, 1, MARKOV_ORDER) # StartHere

\* C7: an operation that fails leaves the model as it was before the call:
\* when markov.py's handler ends with IndexError in generation,
\* generated_messages keeps the value it had before the attempt; when
\* new_bot.py's build_markov_chain rolls back, total_messages is what
\* handle_message read when it started.
C7_FailureLeavesModel ==
    [][/\ \A h \in Handlers :
              (handler'[h] # handler[h] /\ handler'[h].err = "IndexError")
                  => generated_messages' = generated_messages
       /\ \A h \in Handlers :
              (task[h].pc = "build" /\ task'[h].err = "IntegrityError")
                  => get_stat("total_messages")' = task[h].stat - 1]_vars

\* The generated token lists in flight: markov.py's while the reply is
\* awaited, new_bot.py's while generate_text runs and after it returned.
Generated ==
    {handler[h].text : h \in {g \in Handlers : handler[g].pc = "reply"}}
        \cup {task[h].result :
                  h \in {g \in Handlers :
                            task[g].pc \in {"gen", "read_generated", "update_generated"}}}

\* C8: generation stops after at most max_words appends: a generated token
\* list is never longer than N + max_words, and new_bot.py's loop has
\* appended max_words - n tokens when n iterations are left.
C8_GenerationBounded ==
    /\ \A text \in Generated : Len(text) <= MARKOV_ORDER + MaxWords
    /\ \A h \in Handlers :
           task[h].pc = "gen"
               => /\ task[h].n \in 1..MaxWords
                  /\ Len(task[h].result) = MARKOV_ORDER + MaxWords - task[h].n

\* A generation that went round a cycle of the store for all its max_words
\* iterations and could have gone on.
C8_Witness ==
    \E text \in Generated :
        /\ Len(text) = MARKOV_ORDER + MaxWords
        /\ SubSeq(text, Len(text) - MARKOV_ORDER + 1, Len(text)) \in DOMAIN Store

\* C9: the first N tokens of a generated token list are a context of the
\* chain store, and every later token was observed, in a learned message,
\* after the N tokens before it.
C9_GeneratedFromStore ==
    \A text \in Generated :
        /\ SubSeq(text, 1, MARKOV_ORDER) \in DOMAIN Store
        /\ \A j \in (MARKOV_ORDER + 1)..Len(text) :
               <<SubSeq(text, j - MARKOV_ORDER, j - 1), text[j]>> \in Range(Observed)

\* C10: in markov.py, load_markov_chain on what save_markov_chain wrote
\* returns the keys, the successor lists and the two counters that were
\* saved.
C10_RoundTrip ==
    prog = "markov" => (load_markov_chain.ok /\ load_markov_chain.model = saved)

\* A model was saved whose chain holds the word of quotes and comma in a
\* key and in a list of two successors, and whose counters are not zero.
C10_Witness ==
    /\ prog = "markov"
    /\ chain_file # NoFile
    /\ saved.markov_chain = markov_chain
    /\ saved.generated_messages > 0
    /\ \E k \in DOMAIN markov_chain :
           /\ <<SQ, ",", DQ>> \in Range(k)
           /\ Len(markov_chain[k]) = 2
           /\ <<SQ, ",", DQ>> \in Range(markov_chain[k])

\* C11: whatever statement of save_markov_chain the process is killed
\* after, load_markov_chain succeeds and returns the model it returned
\* before that statement or the model being saved; by induction over the
\* statements of a save, the model persisted before the save or the new one.
C11_PartialWriteSafe ==
    [][(saving # NotSaving \/ saving' # NotSaving)
           => /\ load_markov_chain'.ok
              /\ load_markov_chain'.model \in {load_markov_chain.model, saved'}]_vars

\* C12: at every point at which the process can stop, the chain and the
\* two counters that load_markov_chain would return are those of one model
\* the process held in memory: the empty model of the first start, or a
\* model that a save found.
C12_OneSnapshot ==
    (prog = "markov" /\ load_markov_chain.ok)
        => load_markov_chain.model \in snapshots

\* C13: with both files absent load_markov_chain returns the empty chain
\* and two zero counters, without raising; with the chain file absent the
\* counters it returns are zero; with the stats file absent the chain it
\* returns is empty.
C13_LoadMissingState ==
    prog = "markov"
        => /\ (chain_file = NoFile /\ stats_file = NoFile)
                  => /\ load_markov_chain.ok
                     /\ load_markov_chain.model = ModelOf(EmptyDict, 0, 0)
           /\ chain_file = NoFile => LoadStats(stats_file) = StatsOf(0, 0)
           /\ stats_file = NoFile => LoadChain(chain_file).chain = EmptyDict

\* The sum of the lengths of the successor lists of the chain store.
SuccessorCount == Sum([k \in DOMAIN Store |-> Len(Store[k])], DOMAIN Store)

\* C14: the statistics query reports, as the size of the chain, the sum of
\* the lengths of all successor lists, and as the number of combinations
\* the number of context keys.
C14_SuccessorCount ==
    IF prog = "markov"
    THEN wisdom.err = "none"
             => /\ wisdom.chain_size = SuccessorCount
                /\ wisdom.total_words = Cardinality(DOMAIN Store)
    ELSE /\ wisdom_command.chain_size = SuccessorCount
         /\ wisdom_command.chain_count = Cardinality(DOMAIN Store)

\* C15: on a store with no context the statistics query of the running
\* program ends without error and reports the variability 0.
C15_VariabilityOfEmpty ==
    (up /\ DOMAIN Store = {})
        => IF prog = "markov"
           THEN wisdom.err = "none" /\ wisdom.variability = Zero
           ELSE wisdom_command.err = "none" /\ wisdom_command.variability = Zero

\* C16: in new_bot.py, once the handlers that learned concurrently have
\* all completed, the chain store holds every (context, successor)
\* observation of every message whose build_markov_chain committed.
C16_NoLostUpdate ==
    (prog = "new_bot" /\ \A h \in Handlers : task[h].pc = "idle")
        => Range(Observed) \subseteq StorePairs

\* C17: with handlers interleaved at their awaits, every save writes the
\* whole in-memory model of one instant: the chain and the counters put in
\* the files are those in memory at that step, memory is not touched
\* during it, and that model holds all the observations of whole messages,
\* every message counted, never a part of those of one message.
C17_NoTornSnapshot ==
    [][(prog = "markov" /\ (chain_file' # chain_file \/ stats_file' # stats_file))
           => /\ chain_file' = <<SerializableChain(markov_chain)>>
              /\ stats_file' = <<StatsOf(total_messages, generated_messages)>>
              /\ <<markov_chain, total_messages, generated_messages>>'
                     = <<markov_chain, total_messages, generated_messages>>
              /\ StorePairs = Range(Observed)
              /\ total_messages = Len(learned)]_vars

\* A handler saved after its reply a model that holds the message which
\* the other handler, still asleep, learned after the first one had
\* learned its own.
C17_Witness ==
    /\ prog = "markov"
    /\ up
    /\ received = 2
    /\ handler[1].pc = "idle"
    /\ handler[2].pc = "sleep"
    /\ chain_file # NoFile
    /\ saved = ModelOf(markov_chain, total_messages, generated_messages)
    /\ saved.total_messages = 2
    /\ saved.generated_messages = 1
    /\ Cardinality(DOMAIN markov_chain) >= 2

\* C18: in a generated token list the sentinel occurs at most once, and
\* only as the last token: nothing is appended after it.
C18_StopOnSentinel ==
    \A text \in Generated :
        \A j \in 1..Len(text) : text[j] = Sentinel => j = Len(text)

\* A generation that the sentinel ended before max_words tokens were
\* appended.
C18_Witness ==
    \E text \in Generated :
        /\ Len(text) > MARKOV_ORDER
        /\ Len(text) < MARKOV_ORDER + MaxWords
        /\ text[Len(text)] = Sentinel

\* C19: no context key of the chain store holds the sentinel.
C19_NoSentinelInKeys ==
    \A k \in DOMAIN Store : Sentinel \notin Range(k)

\* A message with doubled and trailing spaces was learned, and the
\* sentinel is a successor in the store.
C19_Witness ==
    /\ \E j \in 1..Len(learned) : learned[j] = <<<<"a">>, <<"a">>, Sentinel>>
    /\ \E k \in DOMAIN Store : Sentinel \in Range(Store[k])
    /\ Cardinality(DOMAIN Store) >= 2

\* C20: every context key of the chain store has a successor list that is
\* not empty, in memory and in what load_markov_chain reads back from the
\* files.
C20_NonEmptySuccessors ==
    /\ \A k \in DOMAIN Store : Store[k] # <<>>
    /\ prog = "markov"
           => \A k \in DOMAIN LoadChain(chain_file).chain :
                  LoadChain(chain_file).chain[k] # <<>>

\* markov.py runs again on a chain that its shutdown saved and its start
\* loaded: no handler ever saved, since none generated.
C20_Witness ==
    /\ prog = "markov"
    /\ up
    /\ chain_file # NoFile
    /\ generated_messages = 0
    /\ DOMAIN markov_chain # {}
    /\ markov_chain = LoadChain(chain_file).chain

====
